---------------------------- MODULE Spec2Model ----------------------------
(***************************************************************************)
(* Verification model of the metal-miner contracts.                        *)
(*                                                                         *)
(*   src/src/mining.rs  MiningContract: mines, harvests, upgrades and the  *)
(*                      per-metal global production counters.              *)
(*   src/src/player.rs  PlayerContract: registration, experience, level,   *)
(*                      active mines and activity.                         *)
(*                                                                         *)
(* Each public contract function is one action: the host runs an           *)
(* invocation atomically and rolls the instance storage back when the      *)
(* invocation traps.  The two contracts keep separate instance storage;    *)
(* they share only the ledger clock.                                       *)
(*                                                                         *)
(* An invocation is signed by one address (caller); require_auth() of any  *)
(* other address traps.  Ledger timestamps and mine counts stay far below  *)
(* the u64 / u32 range, so the MiningContract's arithmetic is exact; the   *)
(* PlayerContract adds caller-chosen u64 values and cuts a u64 to a u32,   *)
(* and keeps their widths.                                                 *)
(***************************************************************************)
EXTENDS Integers, Sequences, FiniteSets, TLC

VARIABLES
    now,              \* env.ledger().timestamp()
    result,           \* what the last invocation returned to its caller
    \* MiningContract
    mineStore,        \* instance storage, keys DataKey::Mine(id)
    playerMines,      \* instance storage, keys DataKey::PlayerMines(address)
    mineCount,        \* instance storage, key DataKey::MineCount (0: absent)
    globalProduction, \* instance storage, keys DataKey::GlobalProduction(metal)
    harvested,        \* history: per metal, the sum of the receipts' amounts
    created,          \* history: the number of successful create_mine calls
    cooldownFrom,     \* history: per mine, the clock of its creation or of its
                      \* last successful harvest
    issued,           \* history: the ids create_mine returned, in order
    \* PlayerContract
    playerStore,      \* instance storage, keys DataKey::Player(address)
    playerCount,      \* instance storage, key DataKey::PlayerCount (0: absent)
    granted,          \* history: per address, the sum of the exp_gained granted
    lastAction,       \* history: per address, the clock of its last successful action
    calls,            \* history: the number of successful PlayerContract updates
    invoker,          \* history: the address that signed the last PlayerContract
                      \* invocation
    \* invocations of the MiningContract run one storage access at a time
    frames,           \* per host thread, the invocation in flight: its position,
                      \* arguments and local variables
    overlapped        \* history: an invocation began while another was in flight

mineVars ==
    <<mineStore, playerMines, mineCount, globalProduction, harvested, created,
      cooldownFrom, issued>>

playerVars == <<playerStore, playerCount, granted, lastAction, calls>>

hostVars == <<frames, overlapped>>

vars == <<now, result, mineVars, playerVars, invoker, hostVars>>

-----------------------------------------------------------------------------
(* Bounds of the model *)

\* MiningSpec: create_mine is explored until this many mines exist
MaxMines == 2

\* MiningSpec: upgrade_mine is explored up to this level (SingleMineSpec
\* upgrades its one mine all the way)
WideLevel == 2

\* the identities that own mines and sign invocations
Addresses == {"a1", "a2"}

\* SingleMineSpec: ledger timestamps the clock is stepped through: the last
\* second before the first full hour, full hours, and one half hour
MineTimes == {0, 3599, 3600, 5400, 7200, 14400}

\* MiningSpec: ledger timestamps the clock is stepped through
WideTimes == {0, 3600, 7200}

-----------------------------------------------------------------------------
(* mining.rs: types and constants *)

MetalType == {"Gold", "Silver", "Copper", "Iron", "Platinum"}

HarvestInterval == 3600

MaxUpgradeLevel == 10

EfficiencyPerUpgrade == 5

calculate_base_efficiency(metal_type) ==
    CASE metal_type = "Iron" -> 80
      [] metal_type = "Copper" -> 75
      [] metal_type = "Silver" -> 60
      [] metal_type = "Gold" -> 45
      [] metal_type = "Platinum" -> 30

calculate_base_capacity(metal_type) ==
    CASE metal_type = "Iron" -> 1000
      [] metal_type = "Copper" -> 800
      [] metal_type = "Silver" -> 500
      [] metal_type = "Gold" -> 200
      [] metal_type = "Platinum" -> 100

base_rate(metal_type) ==
    CASE metal_type = "Iron" -> 50
      [] metal_type = "Copper" -> 40
      [] metal_type = "Silver" -> 25
      [] metal_type = "Gold" -> 10
      [] metal_type = "Platinum" -> 5

calculate_production_rate(metal_type, upgrade_level) ==
    base_rate(metal_type) * upgrade_level

\* storage.set(key, value): insert or overwrite
StoreSet(store, key, value) ==
    [k \in (DOMAIN store) \cup {key} |-> IF k = key THEN value ELSE store[k]]

\* storage.get(key).unwrap_or(default)
GetOr(store, key, default) ==
    IF key \in DOMAIN store THEN store[key] ELSE default

\* faulty variant: require_auth() is missing
AuthorizedAnyone(caller, address) == TRUE

\* address.require_auth(): passes iff the invocation is signed by address
Authorized(caller, address) == caller = address

-----------------------------------------------------------------------------
(* mining.rs: read-only entry points *)

NoMine == [id |-> 0]

get_mine(mine_id) ==
    IF mine_id \in DOMAIN mineStore
    THEN [some |-> TRUE, mine |-> mineStore[mine_id]]
    ELSE [some |-> FALSE, mine |-> NoMine]

get_player_mines(player) == GetOr(playerMines, player, <<>>)

get_global_production(metal_type) == GetOr(globalProduction, metal_type, 0)

-----------------------------------------------------------------------------
(* mining.rs: create_mine *)

\* faulty variant: the id counter skips a slot
NextMineIdSkips(count) == count + 2

NextMineId(count) == count + 1

NewMine(mine_id, owner, metal_type) ==
    [id |-> mine_id,
     owner |-> owner,
     metal_type |-> metal_type,
     efficiency |-> calculate_base_efficiency(metal_type),
     capacity |-> calculate_base_capacity(metal_type),
     current_production |-> 0,
     start_time |-> now,
     last_harvest |-> now,
     upgrade_level |-> 1]

Ret(op, status, val) == [op |-> op, status |-> status, val |-> val]

\* faulty variant: the new id goes to the front of the owner's list
create_mine_prepends(caller, owner, metal_type) ==
    /\ IF ~Authorized(caller, owner)
       THEN /\ result' = Ret("create_mine", "Unauthorized", 0)
            /\ UNCHANGED mineVars
       ELSE LET mine_id == NextMineId(mineCount)
            IN /\ mineStore' = StoreSet(mineStore, mine_id, NewMine(mine_id, owner, metal_type))
               /\ playerMines' =
                     StoreSet(playerMines, owner, <<mine_id>> \o get_player_mines(owner))
               /\ mineCount' = mine_id
               /\ result' = Ret("create_mine", "Ok", mine_id)
               /\ created' = created + 1
               /\ cooldownFrom' = StoreSet(cooldownFrom, mine_id, now)
               /\ issued' = Append(issued, mine_id)
               /\ UNCHANGED <<globalProduction, harvested>>
    /\ UNCHANGED now

create_mine(caller, owner, metal_type) ==
    /\ IF ~Authorized(caller, owner)
       THEN /\ result' = Ret("create_mine", "Unauthorized", 0)
            /\ UNCHANGED mineVars
       ELSE LET mine_id == NextMineId(mineCount)
            IN /\ mineStore' = StoreSet(mineStore, mine_id, NewMine(mine_id, owner, metal_type))
               /\ playerMines' =
                     StoreSet(playerMines, owner, Append(get_player_mines(owner), mine_id))
               /\ mineCount' = mine_id
               /\ result' = Ret("create_mine", "Ok", mine_id)
               /\ created' = created + 1
               /\ cooldownFrom' = StoreSet(cooldownFrom, mine_id, now)
               /\ issued' = Append(issued, mine_id)
               /\ UNCHANGED <<globalProduction, harvested>>
    /\ UNCHANGED now

-----------------------------------------------------------------------------
(* mining.rs: harvest_mine *)

\* faulty variant: the cooldown check is off by one second
HarvestReadyEarly(time_since_last_harvest) ==
    ~(time_since_last_harvest < HarvestInterval - 1)

HarvestReady(time_since_last_harvest) == ~(time_since_last_harvest < HarvestInterval)

\* faulty variant: the produced amount is not cut to the capacity
HarvestAmountUncapped(mine, time_since_last_harvest) ==
    (calculate_production_rate(mine.metal_type, mine.upgrade_level)
        * (time_since_last_harvest \div 3600) * mine.efficiency) \div 100

\* final_amount of a harvest of mine after time_since_last_harvest seconds
HarvestAmount(mine, time_since_last_harvest) ==
    LET hours_passed == time_since_last_harvest \div 3600
        base_production == calculate_production_rate(mine.metal_type, mine.upgrade_level)
        efficiency_multiplier == mine.efficiency
        produced_amount == (base_production * hours_passed * efficiency_multiplier) \div 100
    IN IF produced_amount > mine.capacity THEN mine.capacity ELSE produced_amount

\* faulty variant: the harvest replaces current_production instead of adding to it
HarvestedMineReplaces(mine, final_amount, current_time) ==
    [mine EXCEPT !.current_production = final_amount,
                 !.last_harvest = current_time]

\* faulty variant: the harvest also restarts the mine's start_time
HarvestedMineRestarts(mine, final_amount, current_time) ==
    [mine EXCEPT !.current_production = @ + final_amount,
                 !.last_harvest = current_time,
                 !.start_time = current_time]

\* faulty variant: last_harvest moves to the last whole hour, so that the
\* rest of the elapsed time counts towards the next harvest
HarvestedMineKeepsResidual(mine, final_amount, current_time) ==
    [mine EXCEPT !.current_production = @ + final_amount,
                 !.last_harvest =
                     @ + ((current_time - @) \div HarvestInterval) * HarvestInterval]

HarvestedMine(mine, final_amount, current_time) ==
    [mine EXCEPT !.current_production = @ + final_amount,
                 !.last_harvest = current_time]

MinedResource(mine, final_amount, current_time) ==
    [metal_type |-> mine.metal_type,
     amount |-> final_amount,
     mined_at |-> current_time,
     efficiency_bonus |-> mine.efficiency]

harvest_mine(caller, mine_id) ==
    /\ IF mine_id \notin DOMAIN mineStore
       THEN /\ result' = Ret("harvest_mine", "NotFound", 0)
            /\ UNCHANGED mineVars
       ELSE LET mine == mineStore[mine_id]
                current_time == now
                time_since_last_harvest == current_time - mine.last_harvest
                final_amount == HarvestAmount(mine, time_since_last_harvest)
            IN IF ~Authorized(caller, mine.owner)
               THEN /\ result' = Ret("harvest_mine", "Unauthorized", 0)
                    /\ UNCHANGED mineVars
               ELSE IF ~HarvestReady(time_since_last_harvest)
               THEN /\ result' = Ret("harvest_mine", "TooEarly", 0)
                    /\ UNCHANGED mineVars
               ELSE /\ mineStore' =
                          StoreSet(mineStore, mine_id,
                                   HarvestedMine(mine, final_amount, current_time))
                    /\ globalProduction' =
                          StoreSet(globalProduction, mine.metal_type,
                                   get_global_production(mine.metal_type) + final_amount)
                    /\ harvested' =
                          [harvested EXCEPT ![mine.metal_type] = @ + final_amount]
                    /\ cooldownFrom' = StoreSet(cooldownFrom, mine_id, current_time)
                    /\ result' = Ret("harvest_mine", "Ok",
                                     MinedResource(mine, final_amount, current_time))
                    /\ UNCHANGED <<playerMines, mineCount, created, issued>>
    /\ UNCHANGED now

-----------------------------------------------------------------------------
(* mining.rs: upgrade_mine *)

\* faulty variant: the level check lets level 10 through
AtMaxLevelLate(mine) == mine.upgrade_level > MaxUpgradeLevel

AtMaxLevel(mine) == mine.upgrade_level >= MaxUpgradeLevel

\* faulty variant: the capacity grows by a tenth of the current capacity
UpgradedMineCompounds(mine) ==
    [mine EXCEPT !.upgrade_level = @ + 1,
                 !.efficiency = @ + EfficiencyPerUpgrade,
                 !.capacity = @ + (mine.capacity \div 10)]

\* faulty variant: the upgrade also spends the mine's current_production
UpgradedMineSpends(mine) ==
    [mine EXCEPT !.upgrade_level = @ + 1,
                 !.efficiency = @ + EfficiencyPerUpgrade,
                 !.capacity = @ + (calculate_base_capacity(mine.metal_type) \div 10),
                 !.current_production = 0]

UpgradedMine(mine) ==
    [mine EXCEPT !.upgrade_level = @ + 1,
                 !.efficiency = @ + EfficiencyPerUpgrade,
                 !.capacity = @ + (calculate_base_capacity(mine.metal_type) \div 10)]

upgrade_mine(caller, mine_id) ==
    /\ IF mine_id \notin DOMAIN mineStore
       THEN /\ result' = Ret("upgrade_mine", "NotFound", 0)
            /\ UNCHANGED mineVars
       ELSE LET mine == mineStore[mine_id]
            IN IF ~Authorized(caller, mine.owner)
               THEN /\ result' = Ret("upgrade_mine", "Unauthorized", 0)
                    /\ UNCHANGED mineVars
               ELSE IF AtMaxLevel(mine)
               THEN /\ result' = Ret("upgrade_mine", "MaxLevelReached", 0)
                    /\ UNCHANGED mineVars
               ELSE /\ mineStore' = StoreSet(mineStore, mine_id, UpgradedMine(mine))
                    /\ result' = Ret("upgrade_mine", "Ok", 0)
                    /\ UNCHANGED <<playerMines, mineCount, globalProduction, harvested,
                                   created, cooldownFrom, issued>>
    /\ UNCHANGED now


-----------------------------------------------------------------------------
(* player.rs: fixed-width integers                                         *)
(*                                                                         *)
(* exp_gained and amount are caller-chosen u64 values, and level is a u32  *)
(* cut from a u64.  A value is a little-endian sequence of 16-bit limbs:   *)
(* four limbs for a u64, two for a u32.                                    *)

Base == 65536

U64Limbs == 4

U32Limbs == 2

Limb(a, i) == IF i <= Len(a) THEN a[i] ELSE 0

\* a on n limbs: zero-extended, or cut to its low n limbs
Resize(a, n) == [i \in 1..n |-> Limb(a, i)]

\* a small number on n limbs
FromNat(k, n) ==
    [i \in 1..n |-> IF i = 1 THEN k % Base ELSE IF i = 2 THEN k \div Base ELSE 0]

RECURSIVE AddLimbs(_, _, _, _, _)
AddLimbs(a, b, i, n, carry) ==
    IF i > n
    THEN <<carry>>
    ELSE LET s == Limb(a, i) + Limb(b, i) + carry
         IN <<s % Base>> \o AddLimbs(a, b, i + 1, n, s \div Base)

\* a + b, exact, one limb longer than the longer operand
BigAdd(a, b) == AddLimbs(a, b, 1, IF Len(a) < Len(b) THEN Len(b) ELSE Len(a), 0)

RECURSIVE DivLimbs(_, _, _, _)
DivLimbs(a, d, i, rem) ==
    IF i = 0
    THEN <<>>
    ELSE LET cur == rem * Base + a[i]
         IN DivLimbs(a, d, i - 1, cur % d) \o <<cur \div d>>

\* a / d, truncating, for a divisor below 2^15
BigDiv(a, d) == DivLimbs(a, d, Len(a), 0)

RECURSIVE MulLimbs(_, _, _, _)
MulLimbs(a, m, i, carry) ==
    IF i > Len(a)
    THEN <<carry>>
    ELSE LET p == a[i] * m + carry
         IN <<p % Base>> \o MulLimbs(a, m, i + 1, p \div Base)

\* a * m, exact, for a multiplier below 2^15
BigMul(a, m) == MulLimbs(a, m, 1, 0)

RECURSIVE GreaterFrom(_, _, _)
GreaterFrom(a, b, i) ==
    IF i = 0
    THEN FALSE
    ELSE IF Limb(a, i) # Limb(b, i)
    THEN Limb(a, i) > Limb(b, i)
    ELSE GreaterFrom(a, b, i - 1)

\* a > b
BigGreater(a, b) == GreaterFrom(a, b, IF Len(a) < Len(b) THEN Len(b) ELSE Len(a))

\* a = b as numbers, whatever their widths
BigEqual(a, b) == ~BigGreater(a, b) /\ ~BigGreater(b, a)

\* u64 + u64: the sum on 64 bits, and whether it overflowed
U64Add(a, b) ==
    LET s == BigAdd(a, b)
    IN [value |-> Resize(s, U64Limbs), overflow |-> s[U64Limbs + 1] # 0]

\* (x as u32) of a u64
AsU32(a) == Resize(a, U32Limbs)

U64(k) == FromNat(k, U64Limbs)

U32(k) == FromNat(k, U32Limbs)

U32Max == <<65535, 65535>>

U64Max == <<65535, 65535, 65535, 65535>>

-----------------------------------------------------------------------------
(* player.rs: PlayerContract *)

NoPlayer == [address |-> "none"]

get_player(player) ==
    IF player \in DOMAIN playerStore
    THEN [some |-> TRUE, player |-> playerStore[player]]
    ELSE [some |-> FALSE, player |-> NoPlayer]

get_player_count == playerCount

DayInSeconds == 24 * 60 * 60

\* faulty variant: the day boundary is inclusive
is_player_active_inclusive(player) ==
    IF player \in DOMAIN playerStore
    THEN now - playerStore[player].last_activity <= DayInSeconds
    ELSE FALSE

is_player_active(player) ==
    IF player \in DOMAIN playerStore
    THEN now - playerStore[player].last_activity < DayInSeconds
    ELSE FALSE

NewPlayer(player, username) ==
    [address |-> player,
     username |-> username,
     level |-> U32(1),
     experience |-> U64(0),
     total_mined |-> U64(0),
     active_mines |-> <<>>,
     last_activity |-> now]

\* the history of a successful update of player
Touch(player) ==
    /\ lastAction' = [lastAction EXCEPT ![player] = now]
    /\ calls' = calls + 1

\* faulty variant: the has() check is missing, a second registration overwrites
register_player_overwrites(caller, player, username) ==
    /\ playerStore' = StoreSet(playerStore, player, NewPlayer(player, username))
    /\ playerCount' = playerCount + 1
    /\ result' = Ret("register_player", "Ok", 0)
    /\ Touch(player)
    /\ UNCHANGED <<granted, now>>

\* faulty variant: the registration requires the player's own signature
register_player_authorized(caller, player, username) ==
    /\ IF ~Authorized(caller, player)
       THEN /\ result' = Ret("register_player", "Unauthorized", 0)
            /\ UNCHANGED playerVars
       ELSE IF player \in DOMAIN playerStore
       THEN /\ result' = Ret("register_player", "AlreadyRegistered", 0)
            /\ UNCHANGED playerVars
       ELSE /\ playerStore' = StoreSet(playerStore, player, NewPlayer(player, username))
            /\ playerCount' = playerCount + 1
            /\ result' = Ret("register_player", "Ok", 0)
            /\ Touch(player)
            /\ UNCHANGED granted
    /\ UNCHANGED now

register_player(caller, player, username) ==
    /\ IF player \in DOMAIN playerStore
       THEN /\ result' = Ret("register_player", "AlreadyRegistered", 0)
            /\ UNCHANGED playerVars
       ELSE /\ playerStore' = StoreSet(playerStore, player, NewPlayer(player, username))
            /\ playerCount' = playerCount + 1
            /\ result' = Ret("register_player", "Ok", 0)
            /\ Touch(player)
            /\ UNCHANGED granted
    /\ UNCHANGED now

ExpPerLevel == 1000

\* the level update_experience stores for a player at level with experience
LevelAfter(level, experience) ==
    LET new_level == Resize(BigAdd(BigDiv(experience, ExpPerLevel), U64(1)), U64Limbs)
    IN IF BigGreater(new_level, level) THEN AsU32(new_level) ELSE level

\* u64 += on overflow: the build decides (overflow-checks on: the invocation
\* traps; off: the sum wraps), so both happen
OverflowOutcomes == {"trap", "wrap"}

\* the writes of update_experience once experience is computed
StoreExperience(player, player_data, experience, exp_gained) ==
    /\ playerStore' =
          StoreSet(playerStore, player,
                   [player_data EXCEPT
                       !.experience = experience,
                       !.last_activity = now,
                       !.level = LevelAfter(player_data.level, experience)])
    /\ granted' = [granted EXCEPT ![player] = BigAdd(@, exp_gained)]
    /\ result' = Ret("update_experience", "Ok", 0)
    /\ Touch(player)
    /\ UNCHANGED playerCount

update_experience(caller, player, exp_gained) ==
    /\ IF player \notin DOMAIN playerStore
       THEN /\ result' = Ret("update_experience", "NotFound", 0)
            /\ UNCHANGED playerVars
       ELSE LET player_data == playerStore[player]
                sum == U64Add(player_data.experience, exp_gained)
            IN IF sum.overflow
               THEN \E onOverflow \in OverflowOutcomes :
                       IF onOverflow = "trap"
                       THEN /\ result' = Ret("update_experience", "Panic", 0)
                            /\ UNCHANGED playerVars
                       ELSE StoreExperience(player, player_data, sum.value, exp_gained)
               ELSE StoreExperience(player, player_data, sum.value, exp_gained)
    /\ UNCHANGED now

\* faulty variant: a missing player is created on the fly instead of NotFound
add_active_mine_creates(caller, player, mine_id) ==
    LET player_data == GetOr(playerStore, player, NewPlayer(player, "u1"))
    IN /\ playerStore' =
             StoreSet(playerStore, player,
                      [player_data EXCEPT
                          !.active_mines = Append(@, mine_id),
                          !.last_activity = now])
       /\ result' = Ret("add_active_mine",
                        IF player \in DOMAIN playerStore THEN "Ok" ELSE "NotFound", 0)
       /\ Touch(player)
       /\ UNCHANGED <<playerCount, granted, now>>

add_active_mine(caller, player, mine_id) ==
    /\ IF player \notin DOMAIN playerStore
       THEN /\ result' = Ret("add_active_mine", "NotFound", 0)
            /\ UNCHANGED playerVars
       ELSE LET player_data == playerStore[player]
            IN /\ playerStore' =
                     StoreSet(playerStore, player,
                              [player_data EXCEPT
                                  !.active_mines = Append(@, mine_id),
                                  !.last_activity = now])
               /\ result' = Ret("add_active_mine", "Ok", 0)
               /\ Touch(player)
               /\ UNCHANGED <<playerCount, granted>>
    /\ UNCHANGED now

\* the writes of update_total_mined once total_mined is computed
StoreTotalMined(player, player_data, total_mined) ==
    /\ playerStore' =
          StoreSet(playerStore, player,
                   [player_data EXCEPT
                       !.total_mined = total_mined,
                       !.last_activity = now])
    /\ result' = Ret("update_total_mined", "Ok", 0)
    /\ Touch(player)
    /\ UNCHANGED <<playerCount, granted>>

update_total_mined(caller, player, amount) ==
    /\ IF player \notin DOMAIN playerStore
       THEN /\ result' = Ret("update_total_mined", "NotFound", 0)
            /\ UNCHANGED playerVars
       ELSE LET player_data == playerStore[player]
                sum == U64Add(player_data.total_mined, amount)
            IN IF sum.overflow
               THEN \E onOverflow \in OverflowOutcomes :
                       IF onOverflow = "trap"
                       THEN /\ result' = Ret("update_total_mined", "Panic", 0)
                            /\ UNCHANGED playerVars
                       ELSE StoreTotalMined(player, player_data, sum.value)
               ELSE StoreTotalMined(player, player_data, sum.value)
    /\ UNCHANGED now

-----------------------------------------------------------------------------
(* Inputs and bounds of the PlayerContract exploration *)

\* successful PlayerContract updates explored
MaxCalls == 3

Usernames == {"u1", "u2"}

\* exp_gained: half a level, one level, the first experience whose level
\* does not fit a u32 minus one level, and the largest u64
ExpGains ==
    {U64(500), U64(1000), Resize(BigMul(U32Max, ExpPerLevel), U64Limbs), U64Max}

\* amount: one harvest of a fresh Iron mine, and the largest u64
Amounts == {U64(40), U64Max}

ActiveIds == {1, 2}

\* ledger timestamps: an hour, and the seconds around one day after 0 and 3600
PlayerTimes == {0, 3600, 86399, 86400, 90000}

-----------------------------------------------------------------------------
(* The ledger clock: non-decreasing, moved by the host between invocations *)

AdvanceClock(times) ==
    /\ \E t \in times : t > now /\ now' = t
    /\ result' = Ret("ledger", "Ok", 0)
    /\ UNCHANGED <<mineVars, playerVars, invoker, hostVars>>

-----------------------------------------------------------------------------
(* Specifications *)

\* the host threads that run invocations step by step
Threads == {"t1", "t2"}

\* the frame of a thread that runs no invocation
Idle == [pc |-> "idle"]

Init ==
    /\ now = 0
    /\ result = Ret("deploy", "Ok", 0)
    /\ mineStore = <<>>
    /\ playerMines = <<>>
    /\ mineCount = 0
    /\ globalProduction = <<>>
    /\ harvested = [m \in MetalType |-> 0]
    /\ created = 0
    /\ cooldownFrom = <<>>
    /\ issued = <<>>
    /\ playerStore = <<>>
    /\ playerCount = 0
    /\ granted = [a \in Addresses |-> U64(0)]
    /\ lastAction = [a \in Addresses |-> 0]
    /\ calls = 0
    /\ invoker = "none"
    /\ frames = [w \in Threads |-> Idle]
    /\ overlapped = FALSE

\* mine ids invocations are made with: every id in use and the next one
MineIds == 1..(MaxMines + 1)

LevelsWithin(store, level) == \A i \in DOMAIN store : store[i].upgrade_level <= level

\* SingleMineSpec: one mine, through every upgrade level and harvest time
CreateFirstMine ==
    /\ mineCount = 0
    /\ \E c \in Addresses, o \in Addresses, m \in MetalType : create_mine(c, o, m)
    /\ UNCHANGED <<playerVars, invoker, hostVars>>

HarvestMine ==
    /\ \E c \in Addresses, i \in MineIds : harvest_mine(c, i)
    /\ UNCHANGED <<playerVars, invoker, hostVars>>

UpgradeMine ==
    /\ \E c \in Addresses, i \in MineIds : upgrade_mine(c, i)
    /\ UNCHANGED <<playerVars, invoker, hostVars>>

AdvanceMineClock == AdvanceClock(MineTimes)

SingleMineNext == CreateFirstMine \/ HarvestMine \/ UpgradeMine \/ AdvanceMineClock

SingleMineSpec == Init /\ [][SingleMineNext]_vars

\* MiningSpec: several mines, through the first upgrade levels
CreateMine ==
    /\ mineCount < MaxMines
    /\ \E c \in Addresses, o \in Addresses, m \in MetalType : create_mine(c, o, m)
    /\ UNCHANGED <<playerVars, invoker, hostVars>>

UpgradeMineWide ==
    /\ \E c \in Addresses, i \in MineIds : upgrade_mine(c, i)
    /\ LevelsWithin(mineStore', WideLevel)
    /\ UNCHANGED <<playerVars, invoker, hostVars>>

AdvanceWideClock == AdvanceClock(WideTimes)

MiningNext == CreateMine \/ HarvestMine \/ UpgradeMineWide \/ AdvanceWideClock

MiningSpec == Init /\ [][MiningNext]_vars

\* PlayerSpec: the PlayerContract
RegisterPlayer ==
    /\ calls < MaxCalls
    /\ \E c \in Addresses, p \in Addresses, u \in Usernames :
          register_player(c, p, u) /\ invoker' = c
    /\ UNCHANGED <<mineVars, hostVars>>

UpdateExperience ==
    /\ calls < MaxCalls
    /\ \E c \in Addresses, p \in Addresses, e \in ExpGains :
          update_experience(c, p, e) /\ invoker' = c
    /\ UNCHANGED <<mineVars, hostVars>>

AddActiveMine ==
    /\ calls < MaxCalls
    /\ \E c \in Addresses, p \in Addresses, i \in ActiveIds :
          add_active_mine(c, p, i) /\ invoker' = c
    /\ UNCHANGED <<mineVars, hostVars>>

UpdateTotalMined ==
    /\ calls < MaxCalls
    /\ \E c \in Addresses, p \in Addresses, a \in Amounts :
          update_total_mined(c, p, a) /\ invoker' = c
    /\ UNCHANGED <<mineVars, hostVars>>

AdvancePlayerClock == AdvanceClock(PlayerTimes)

PlayerNext ==
    RegisterPlayer \/ UpdateExperience \/ AddActiveMine \/ UpdateTotalMined
        \/ AdvancePlayerClock

PlayerSpec == Init /\ [][PlayerNext]_vars

\* Spec: both contracts on one ledger.  They share no storage, so they are
\* explored while at most one of them holds state: one mine through every
\* upgrade level, or the players.
Next ==
    \/ playerCount = 0 /\ CreateFirstMine
    \/ playerCount = 0 /\ HarvestMine
    \/ playerCount = 0 /\ UpgradeMine
    \/ playerCount = 0 /\ AdvanceWideClock
    \/ mineCount = 0 /\ RegisterPlayer
    \/ mineCount = 0 /\ UpdateExperience
    \/ mineCount = 0 /\ AddActiveMine
    \/ mineCount = 0 /\ UpdateTotalMined
    \/ mineCount = 0 /\ AdvancePlayerClock

Spec == Init /\ [][Next]_vars

-----------------------------------------------------------------------------
(* mining.rs, one storage access at a time.  create_mine and harvest_mine  *)
(* are cut at their reads and writes of the instance storage; what an      *)
(* invocation has read or computed stays in its thread's frame.  A thread  *)
(* may begin an invocation while another one is in flight: overlapped      *)
(* records that this happened.                                             *)

InFlight(t) == frames[t].pc # "idle"

\* thread t begins an invocation
Begins(t) ==
    /\ ~InFlight(t)
    /\ overlapped' = (overlapped \/ \E u \in Threads : u # t /\ InFlight(u))

\* thread t moves to frame
Continues(t, frame) == frames' = [frames EXCEPT ![t] = frame]

\* thread t returns ret to its caller
Returns(t, ret) ==
    /\ frames' = [frames EXCEPT ![t] = Idle]
    /\ result' = ret

\* create_mine up to the read of MineCount and the new Mine built from it
CreateReadCount(t, caller, owner, metal_type) ==
    /\ Begins(t)
    /\ IF ~Authorized(caller, owner)
       THEN Returns(t, Ret("create_mine", "Unauthorized", 0))
       ELSE LET mine_count == mineCount
                mine_id == NextMineId(mine_count)
            IN /\ Continues(t, [pc |-> "create_set_mine",
                                owner |-> owner,
                                mine_id |-> mine_id,
                                new_mine |-> NewMine(mine_id, owner, metal_type)])
               /\ UNCHANGED result
    /\ UNCHANGED <<now, mineVars>>

\* set(Mine(mine_id), new_mine)
CreateSetMine(t) ==
    LET f == frames[t]
    IN /\ f.pc = "create_set_mine"
       /\ mineStore' = StoreSet(mineStore, f.mine_id, f.new_mine)
       /\ cooldownFrom' = StoreSet(cooldownFrom, f.mine_id, f.new_mine.start_time)
       /\ Continues(t, [f EXCEPT !.pc = "create_get_list"])
       /\ UNCHANGED <<now, result, playerMines, mineCount, globalProduction,
                      harvested, created, issued, overlapped>>

\* get(PlayerMines(owner)) and push_back(mine_id)
CreateGetList(t) ==
    LET f == frames[t]
    IN /\ f.pc = "create_get_list"
       /\ Continues(t, [pc |-> "create_set_list",
                        owner |-> f.owner,
                        mine_id |-> f.mine_id,
                        player_mines |-> Append(get_player_mines(f.owner), f.mine_id)])
       /\ UNCHANGED <<now, result, mineVars, overlapped>>

\* set(PlayerMines(owner), player_mines)
CreateSetList(t) ==
    LET f == frames[t]
    IN /\ f.pc = "create_set_list"
       /\ playerMines' = StoreSet(playerMines, f.owner, f.player_mines)
       /\ Continues(t, [pc |-> "create_set_count", mine_id |-> f.mine_id])
       /\ UNCHANGED <<now, result, mineStore, mineCount, globalProduction,
                      harvested, created, cooldownFrom, issued, overlapped>>

\* set(MineCount, mine_id) and the return of mine_id
CreateSetCount(t) ==
    LET f == frames[t]
    IN /\ f.pc = "create_set_count"
       /\ mineCount' = f.mine_id
       /\ created' = created + 1
       /\ issued' = Append(issued, f.mine_id)
       /\ Returns(t, Ret("create_mine", "Ok", f.mine_id))
       /\ UNCHANGED <<now, mineStore, playerMines, globalProduction, harvested,
                      cooldownFrom, overlapped>>

\* harvest_mine up to the read of Mine(mine_id), the checks and the amount
HarvestGetMine(t, caller, mine_id) ==
    /\ Begins(t)
    /\ IF mine_id \notin DOMAIN mineStore
       THEN Returns(t, Ret("harvest_mine", "NotFound", 0))
       ELSE LET mine == mineStore[mine_id]
                current_time == now
                time_since_last_harvest == current_time - mine.last_harvest
                final_amount == HarvestAmount(mine, time_since_last_harvest)
            IN IF ~Authorized(caller, mine.owner)
               THEN Returns(t, Ret("harvest_mine", "Unauthorized", 0))
               ELSE IF ~HarvestReady(time_since_last_harvest)
               THEN Returns(t, Ret("harvest_mine", "TooEarly", 0))
               ELSE /\ Continues(t, [pc |-> "harvest_set_mine",
                                     mine_id |-> mine_id,
                                     mine |-> HarvestedMine(mine, final_amount, current_time),
                                     receipt |-> MinedResource(mine, final_amount,
                                                               current_time)])
                    /\ UNCHANGED result
    /\ UNCHANGED <<now, mineVars>>

\* set(Mine(mine_id), mine)
HarvestSetMine(t) ==
    LET f == frames[t]
    IN /\ f.pc = "harvest_set_mine"
       /\ mineStore' = StoreSet(mineStore, f.mine_id, f.mine)
       /\ cooldownFrom' = StoreSet(cooldownFrom, f.mine_id, f.mine.last_harvest)
       /\ Continues(t, [pc |-> "harvest_get_global", receipt |-> f.receipt])
       /\ UNCHANGED <<now, result, playerMines, mineCount, globalProduction,
                      harvested, created, issued, overlapped>>

\* get(GlobalProduction(metal_type))
HarvestGetGlobal(t) ==
    LET f == frames[t]
    IN /\ f.pc = "harvest_get_global"
       /\ Continues(t, [pc |-> "harvest_set_global",
                        receipt |-> f.receipt,
                        current_global |-> get_global_production(f.receipt.metal_type)])
       /\ UNCHANGED <<now, result, mineVars, overlapped>>

\* set(GlobalProduction(metal_type), current_global + final_amount) and the
\* return of the receipt
HarvestSetGlobal(t) ==
    LET f == frames[t]
    IN /\ f.pc = "harvest_set_global"
       /\ globalProduction' =
             StoreSet(globalProduction, f.receipt.metal_type,
                      f.current_global + f.receipt.amount)
       /\ harvested' = [harvested EXCEPT ![f.receipt.metal_type] = @ + f.receipt.amount]
       /\ Returns(t, Ret("harvest_mine", "Ok", f.receipt))
       /\ UNCHANGED <<now, mineStore, playerMines, mineCount, created, cooldownFrom,
                      issued, overlapped>>

\* ConcurrentSpec: two threads run create_mine and harvest_mine step by
\* step; the ledger closes, and its clock moves, while none is in flight
RaceMetals == {"Iron"}

RaceTimes == {0, 3600}

BeginCreate ==
    /\ mineCount < MaxMines
    /\ \E t \in Threads, c \in Addresses, o \in Addresses, m \in RaceMetals :
          CreateReadCount(t, c, o, m)
    /\ UNCHANGED <<playerVars, invoker>>

StepCreate ==
    /\ \E t \in Threads :
          CreateSetMine(t) \/ CreateGetList(t) \/ CreateSetList(t) \/ CreateSetCount(t)
    /\ UNCHANGED <<playerVars, invoker>>

BeginHarvest ==
    /\ \E t \in Threads, c \in Addresses, i \in MineIds : HarvestGetMine(t, c, i)
    /\ UNCHANGED <<playerVars, invoker>>

StepHarvest ==
    /\ \E t \in Threads : HarvestSetMine(t) \/ HarvestGetGlobal(t) \/ HarvestSetGlobal(t)
    /\ UNCHANGED <<playerVars, invoker>>

AdvanceRaceClock ==
    /\ \A t \in Threads : ~InFlight(t)
    /\ AdvanceClock(RaceTimes)

ConcurrentNext ==
    BeginCreate \/ StepCreate \/ BeginHarvest \/ StepHarvest \/ AdvanceRaceClock

ConcurrentSpec == Init /\ [][ConcurrentNext]_vars

-----------------------------------------------------------------------------
(* Claims about the MiningContract *)

Min(a, b) == IF a < b THEN a ELSE b

\* C1: the k-th successful create_mine returns id k; right after it
\* get_mine(k) is the fresh mine of the given owner and metal, with the
\* metal's base efficiency and capacity, no production, start_time and
\* last_harvest at the current clock and upgrade_level 1; and get_mine(i)
\* is present exactly for 1 <= i <= MineCount.
C1_SequentialIds ==
    [][/\ \A c \in Addresses, o \in Addresses, m \in MetalType :
             (create_mine(c, o, m) /\ result'.status = "Ok") =>
                 \A k \in 1..(MaxMines + 1) : (k = created + 1) =>
                    /\ result'.val = k
                    /\ get_mine(k)' =
                          [some |-> TRUE,
                           mine |-> [id |-> k,
                                     owner |-> o,
                                     metal_type |-> m,
                                     efficiency |-> calculate_base_efficiency(m),
                                     capacity |-> calculate_base_capacity(m),
                                     current_production |-> 0,
                                     start_time |-> now,
                                     last_harvest |-> now,
                                     upgrade_level |-> 1]]
       /\ \A i \in 0..(MaxMines + 2) : get_mine(i)'.some <=> (1 <= i /\ i <= mineCount')
      ]_vars

\* C1 witness: the second successful create_mine has returned id 2
C1_Witness ==
    /\ result.op = "create_mine"
    /\ result.status = "Ok"
    /\ result.val = 2
    /\ created = 2

\* C2: a harvest by the owner less than 3600 seconds after last_harvest
\* returns TooEarly and changes neither the mine nor any global counter.
C2_TooEarly ==
    [][\A c \in Addresses, i \in MineIds :
          (/\ get_mine(i).some
           /\ c = get_mine(i).mine.owner
           /\ now - get_mine(i).mine.last_harvest < 3600
           /\ harvest_mine(c, i)) =>
              /\ result' = Ret("harvest_mine", "TooEarly", 0)
              /\ get_mine(i)' = get_mine(i)
              /\ \A m \in MetalType : get_global_production(m)' = get_global_production(m)
      ]_vars

\* C2 witness: a harvest 3599 seconds after last_harvest was refused
C2_Witness ==
    /\ result = Ret("harvest_mine", "TooEarly", 0)
    /\ \E i \in DOMAIN mineStore : now - mineStore[i].last_harvest = 3599

\* C3: a harvest by the owner elapsed >= 3600 seconds after last_harvest
\* succeeds with final = min((base_rate * upgrade_level * floor(elapsed/3600)
\* * efficiency) div 100, capacity); current_production and the metal's
\* global counter grow by final, last_harvest becomes the clock, the receipt
\* is (metal_type, final, now, efficiency); a fresh Iron mine harvested 3600
\* seconds after creation yields 40.
C3_HarvestAmount ==
    [][\A c \in Addresses, i \in MineIds :
          (/\ get_mine(i).some
           /\ c = get_mine(i).mine.owner
           /\ now - get_mine(i).mine.last_harvest >= 3600
           /\ harvest_mine(c, i)) =>
              LET mine == get_mine(i).mine
                  elapsed == now - mine.last_harvest
                  final ==
                      Min((base_rate(mine.metal_type) * mine.upgrade_level
                              * (elapsed \div 3600) * mine.efficiency) \div 100,
                          mine.capacity)
              IN /\ result' =
                       Ret("harvest_mine", "Ok",
                           [metal_type |-> mine.metal_type,
                            amount |-> final,
                            mined_at |-> now,
                            efficiency_bonus |-> mine.efficiency])
                 /\ get_mine(i)' =
                       [some |-> TRUE,
                        mine |-> [mine EXCEPT !.current_production = @ + final,
                                              !.last_harvest = now]]
                 /\ \A m \in MetalType :
                       get_global_production(m)' =
                          get_global_production(m)
                             + (IF m = mine.metal_type THEN final ELSE 0)
                 /\ (/\ mine.metal_type = "Iron"
                     /\ mine.upgrade_level = 1
                     /\ mine.start_time = mine.last_harvest
                     /\ elapsed = 3600) => final = 40
      ]_vars

\* C3 witness: a harvest was cut to the capacity of an Iron mine at level 10
C3_Witness ==
    /\ result.op = "harvest_mine"
    /\ result.status = "Ok"
    /\ result.val.metal_type = "Iron"
    /\ result.val.amount = 1900
    /\ result.val.efficiency_bonus = 125

\* C4: every mine's upgrade_level is in 1..10; upgrade_mine by the owner
\* below level 10 succeeds and raises the level by exactly 1; at level 10 it
\* fails with MaxLevelReached and leaves every field of the mine unchanged.
C4_UpgradeLevels ==
    [][/\ \A i \in DOMAIN mineStore' :
             1 <= mineStore'[i].upgrade_level /\ mineStore'[i].upgrade_level <= 10
       /\ \A c \in Addresses, i \in MineIds :
             (get_mine(i).some /\ c = get_mine(i).mine.owner /\ upgrade_mine(c, i)) =>
                 IF get_mine(i).mine.upgrade_level < 10
                 THEN /\ result' = Ret("upgrade_mine", "Ok", 0)
                      /\ get_mine(i)'.mine.upgrade_level =
                            get_mine(i).mine.upgrade_level + 1
                 ELSE /\ result' = Ret("upgrade_mine", "MaxLevelReached", 0)
                      /\ get_mine(i)' = get_mine(i)
      ]_vars

\* C4 witness: an upgrade of a mine at level 10 was refused
C4_Witness ==
    /\ result = Ret("upgrade_mine", "MaxLevelReached", 0)
    /\ \E i \in DOMAIN mineStore : mineStore[i].upgrade_level = 10

-----------------------------------------------------------------------------
(* Claims about the PlayerContract *)

\* C5: register_player of an address without a Player succeeds, stores a
\* Player at level 1 with no experience, nothing mined, no active mines and
\* last_activity at the clock, and adds 1 to the player count; for a
\* registered address it fails with AlreadyRegistered and changes neither
\* the Player nor the count; so get_player_count is the number of addresses
\* get_player is present for.
C5_Registration ==
    [][/\ \A c \in Addresses, p \in Addresses, u \in Usernames :
             register_player(c, p, u) =>
                 IF ~get_player(p).some
                 THEN /\ result' = Ret("register_player", "Ok", 0)
                      /\ get_player(p)' =
                            [some |-> TRUE,
                             player |-> [address |-> p,
                                         username |-> u,
                                         level |-> <<1, 0>>,
                                         experience |-> <<0, 0, 0, 0>>,
                                         total_mined |-> <<0, 0, 0, 0>>,
                                         active_mines |-> <<>>,
                                         last_activity |-> now]]
                      /\ get_player_count' = get_player_count + 1
                 ELSE /\ result' = Ret("register_player", "AlreadyRegistered", 0)
                      /\ get_player(p)' = get_player(p)
                      /\ get_player_count' = get_player_count
       /\ get_player_count' = Cardinality({a \in Addresses : get_player(a)'.some})
      ]_vars

\* C5 witness: a second registration of a registered address was refused
C5_Witness ==
    /\ result = Ret("register_player", "AlreadyRegistered", 0)
    /\ get_player_count = 1

\* C6: every Player's level is floor(experience / 1000) + 1, experience
\* being the sum of the exp_gained granted to the address; level never
\* decreases.
C6_LevelFromExperience ==
    [][/\ \A a \in DOMAIN playerStore' :
             /\ BigEqual(playerStore'[a].experience, granted'[a])
             /\ BigEqual(playerStore'[a].level,
                         BigAdd(BigDiv(granted'[a], 1000), <<1>>))
       /\ \A a \in DOMAIN playerStore :
             ~BigGreater(playerStore[a].level, playerStore'[a].level)
      ]_vars

\* C7: is_player_active(address) is true iff a Player exists and less than
\* 86400 seconds have passed since the address's last successful
\* register_player, update_experience, add_active_mine or update_total_mined.
C7_ActiveIffRecent ==
    \A a \in Addresses :
        is_player_active(a) <=> (get_player(a).some /\ now - lastAction[a] < 86400)

\* C7 witness: exactly 86400 seconds after an update at 3600 the player,
\* registered at 0, is not active
C7_Witness ==
    \E a \in DOMAIN playerStore :
        /\ lastAction[a] = 3600
        /\ calls > 1
        /\ now = 90000
        /\ ~is_player_active(a)

-----------------------------------------------------------------------------
(* Claims about both contracts *)

\* the persistent store of both contracts
store == <<mineStore, playerMines, mineCount, globalProduction, playerStore, playerCount>>

\* C8: a failing invocation leaves the whole store unchanged; harvest_mine
\* and upgrade_mine of a mine id that does not exist fail with NotFound, and
\* so do update_experience, add_active_mine and update_total_mined of an
\* unregistered address.
C8_FailuresChangeNothing ==
    [][/\ (result'.op \notin {"ledger", "deploy"} /\ result'.status # "Ok") =>
             UNCHANGED store
       /\ \A c \in Addresses, i \in MineIds :
             (result'.op \in {"harvest_mine", "upgrade_mine"} /\ ~get_mine(i).some) =>
                 /\ harvest_mine(c, i) => result' = Ret("harvest_mine", "NotFound", 0)
                 /\ upgrade_mine(c, i) => result' = Ret("upgrade_mine", "NotFound", 0)
       /\ \A c \in Addresses, p \in Addresses :
             (/\ result'.op \in {"update_experience", "add_active_mine", "update_total_mined"}
              /\ ~get_player(p).some) =>
                 /\ \A e \in ExpGains :
                       update_experience(c, p, e) =>
                           result' = Ret("update_experience", "NotFound", 0)
                 /\ \A i \in ActiveIds :
                       add_active_mine(c, p, i) =>
                           result' = Ret("add_active_mine", "NotFound", 0)
                 /\ \A m \in Amounts :
                       update_total_mined(c, p, m) =>
                           result' = Ret("update_total_mined", "NotFound", 0)
      ]_vars

\* C8 witness: add_active_mine of an unregistered address failed while
\* another address is registered
C8_Witness ==
    /\ result = Ret("add_active_mine", "NotFound", 0)
    /\ get_player_count = 1

\* C9: a mine changes only in a harvest_mine or upgrade_mine signed by its
\* owner; harvest_mine and upgrade_mine signed by anyone else fail with
\* Unauthorized and change neither the mine nor a global counter; create_mine
\* not signed by owner creates no mine, allocates no id and leaves the
\* owner's mine list unchanged.
C9_OwnerOnly ==
    [][/\ \A i \in DOMAIN mineStore :
             get_mine(i)' # get_mine(i) =>
                 \/ harvest_mine(mineStore[i].owner, i)
                 \/ upgrade_mine(mineStore[i].owner, i)
       /\ \A c \in Addresses, i \in MineIds :
             (get_mine(i).some /\ c # get_mine(i).mine.owner) =>
                 /\ harvest_mine(c, i) =>
                       /\ result' = Ret("harvest_mine", "Unauthorized", 0)
                       /\ UNCHANGED <<mineStore, globalProduction>>
                 /\ upgrade_mine(c, i) =>
                       /\ result' = Ret("upgrade_mine", "Unauthorized", 0)
                       /\ UNCHANGED <<mineStore, globalProduction>>
       /\ \A c \in Addresses, o \in Addresses, m \in MetalType :
             (c # o /\ create_mine(c, o, m)) =>
                 /\ result' = Ret("create_mine", "Unauthorized", 0)
                 /\ UNCHANGED <<mineStore, mineCount>>
                 /\ get_player_mines(o)' = get_player_mines(o)
      ]_vars

\* C9 witness: a harvest of a ripe mine signed by the other address was refused
C9_Witness ==
    /\ result = Ret("harvest_mine", "Unauthorized", 0)
    /\ \E i \in DOMAIN mineStore : now - mineStore[i].last_harvest >= 3600

RECURSIVE SumProduction(_, _)
\* the sum of current_production over the mines ids of metal metal_type
SumProduction(ids, metal_type) ==
    IF ids = {}
    THEN 0
    ELSE LET i == CHOOSE x \in ids : TRUE
         IN (IF mineStore[i].metal_type = metal_type
             THEN mineStore[i].current_production
             ELSE 0) + SumProduction(ids \ {i}, metal_type)

\* C10: for every metal, get_global_production is the sum of
\* current_production over the mines of that metal, which is the sum of the
\* amounts of the receipts for that metal; 0 for a metal never harvested.
C10_GlobalIsSum ==
    \A m \in MetalType :
        /\ get_global_production(m) = SumProduction(DOMAIN mineStore, m)
        /\ get_global_production(m) = harvested[m]

\* C10 witness: two mines of one metal have both been harvested
C10_Witness ==
    \E i \in DOMAIN mineStore, j \in DOMAIN mineStore :
        /\ i # j
        /\ mineStore[i].metal_type = mineStore[j].metal_type
        /\ mineStore[i].current_production > 0
        /\ mineStore[j].current_production > 0

-----------------------------------------------------------------------------
(* Claims about what a step may change *)

\* the mining quantities that only accumulate: no step makes a mine's
\* current_production, last_harvest or upgrade_level, a metal's global
\* counter or MineCount smaller
MiningNeverDecreases ==
    /\ \A i \in DOMAIN mineStore :
          /\ i \in DOMAIN mineStore'
          /\ mineStore'[i].current_production >= mineStore[i].current_production
          /\ mineStore'[i].last_harvest >= mineStore[i].last_harvest
          /\ mineStore'[i].upgrade_level >= mineStore[i].upgrade_level
    /\ \A m \in MetalType : get_global_production(m)' >= get_global_production(m)
    /\ mineCount' >= mineCount

\* the player quantities that only accumulate: no step makes a player's
\* experience, total_mined or level, or PlayerCount smaller
PlayersNeverDecrease ==
    /\ \A a \in DOMAIN playerStore :
          /\ a \in DOMAIN playerStore'
          /\ ~BigGreater(playerStore[a].experience, playerStore'[a].experience)
          /\ ~BigGreater(playerStore[a].total_mined, playerStore'[a].total_mined)
          /\ ~BigGreater(playerStore[a].level, playerStore'[a].level)
    /\ playerCount' >= playerCount

\* C11: across every step, no mine's current_production, last_harvest or
\* upgrade_level, no metal's global counter, no player's experience,
\* total_mined or level, and neither MineCount nor PlayerCount decreases.
C11_NeverDecreases == [][MiningNeverDecreases /\ PlayersNeverDecrease]_vars

\* the mining half of C11 on its own
C11_MiningHalf == [][MiningNeverDecreases]_vars

\* C12: no step deletes a mine or a player, and none changes a mine's id,
\* owner, metal_type or start_time, or a player's address or username.
C12_IdentityKept ==
    [][/\ \A i \in DOMAIN mineStore :
             /\ get_mine(i)'.some
             /\ mineStore'[i].id = mineStore[i].id
             /\ mineStore'[i].owner = mineStore[i].owner
             /\ mineStore'[i].metal_type = mineStore[i].metal_type
             /\ mineStore'[i].start_time = mineStore[i].start_time
       /\ \A a \in DOMAIN playerStore :
             /\ get_player(a)'.some
             /\ playerStore'[a].address = playerStore[a].address
             /\ playerStore'[a].username = playerStore[a].username
      ]_vars

\* C12 witness: a mine created at time 0 has been upgraded and, later,
\* harvested, and is still stored under its id for its owner
C12_Witness ==
    \E i \in DOMAIN mineStore :
        /\ mineStore[i].id = i
        /\ mineStore[i].start_time = 0
        /\ mineStore[i].upgrade_level > 1
        /\ mineStore[i].last_harvest > 0
        /\ i \in {get_player_mines(mineStore[i].owner)[k] :
                     k \in 1..Len(get_player_mines(mineStore[i].owner))}

-----------------------------------------------------------------------------
(* Claims about a mine's efficiency, capacity and cooldown *)

C14_EfficiencyRange ==
    \A i \in DOMAIN mineStore :
        mineStore[i].efficiency >= 1 /\ mineStore[i].efficiency <= 100

\* C15: a harvest of a mine succeeds only 3600 seconds or more after the
\* mine's creation or its previous successful harvest, and sets last_harvest
\* to the time of the harvest, whole hours or not; every harvest attempted
\* less than 3600 seconds after that time fails; an upgrade_mine leaves
\* last_harvest as it is.
C15_Cooldown ==
    [][\A c \in Addresses, i \in DOMAIN mineStore :
          /\ (harvest_mine(c, i) /\ result'.status = "Ok") =>
                /\ now - cooldownFrom[i] >= 3600
                /\ mineStore'[i].last_harvest = now
          /\ (harvest_mine(c, i) /\ now < cooldownFrom[i] + 3600) =>
                result'.status # "Ok"
          /\ upgrade_mine(c, i) =>
                mineStore'[i].last_harvest = mineStore[i].last_harvest
      ]_vars

\* C15 witness: an Iron mine was harvested at level 1 at 5400, an hour and
\* a half after its creation, then upgraded, and its owner's harvest at
\* 7200 was refused
C15_Witness ==
    /\ now = 7200
    /\ result = Ret("harvest_mine", "TooEarly", 0)
    /\ \E i \in DOMAIN mineStore :
          /\ mineStore[i].metal_type = "Iron"
          /\ mineStore[i].start_time = 0
          /\ mineStore[i].last_harvest = 5400
          /\ mineStore[i].current_production = 40
          /\ mineStore[i].upgrade_level = 2

\* C16: the amount of the receipt of every successful harvest is at most the
\* capacity the mine has at that harvest (while current_production, the sum
\* of the amounts, may grow beyond the capacity: see the witness).
C16_ReceiptWithinCapacity ==
    [][\A c \in Addresses, i \in DOMAIN mineStore :
          (harvest_mine(c, i) /\ result'.status = "Ok") =>
              /\ result'.val.amount <= mineStore[i].capacity
              /\ mineStore'[i].capacity = mineStore[i].capacity
      ]_vars

\* C16 witness: after a successful harvest a mine's current_production is
\* strictly greater than its capacity
C16_Witness ==
    /\ result.op = "harvest_mine"
    /\ result.status = "Ok"
    /\ \E i \in DOMAIN mineStore :
          mineStore[i].current_production > mineStore[i].capacity

-----------------------------------------------------------------------------
(* Claims about the owners' lists and the frame of the mine mutators *)

\* the ids in a list of mine ids
ListedIds(list) == {list[k] : k \in 1..Len(list)}

\* C17: for every identity o, get_player_mines(o) lists the ids of the
\* stored mines whose owner is o, each once and in increasing order; every
\* stored mine id is in the list of exactly one identity, and the list of an
\* identity that owns no mine is empty.
C17_OwnerLists ==
    /\ \A o \in Addresses :
          LET list == get_player_mines(o)
          IN /\ ListedIds(list) = {i \in DOMAIN mineStore : mineStore[i].owner = o}
             /\ \A k \in 1..(Len(list) - 1) : list[k] < list[k + 1]
             /\ (\A i \in DOMAIN mineStore : mineStore[i].owner # o) => list = <<>>
    /\ \A i \in DOMAIN mineStore :
          Cardinality({o \in Addresses : i \in ListedIds(get_player_mines(o))}) = 1

\* C17 witness: one identity owns two mines and the other one none
C17_Witness ==
    \E o \in Addresses, p \in Addresses :
        /\ Len(get_player_mines(o)) = 2
        /\ p # o
        /\ get_player_mines(p) = <<>>

\* C18: a successful harvest_mine(id) changes, in the store, only
\* current_production and last_harvest of mine id and the global counter of
\* that mine's metal; a successful upgrade_mine(id) changes only
\* upgrade_level, efficiency and capacity of mine id and no global counter;
\* both leave the other mines, MineCount and every owner's list unchanged.
C18_MutatorFrame ==
    [][\A c \in Addresses, i \in DOMAIN mineStore :
          /\ (harvest_mine(c, i) /\ result'.status = "Ok") =>
                /\ mineStore' =
                      [mineStore EXCEPT ![i] =
                          [@ EXCEPT !.current_production = mineStore'[i].current_production,
                                    !.last_harvest = mineStore'[i].last_harvest]]
                /\ \A m \in MetalType :
                      m # mineStore[i].metal_type =>
                          get_global_production(m)' = get_global_production(m)
                /\ UNCHANGED <<mineCount, playerMines>>
          /\ (upgrade_mine(c, i) /\ result'.status = "Ok") =>
                /\ mineStore' =
                      [mineStore EXCEPT ![i] =
                          [@ EXCEPT !.upgrade_level = mineStore'[i].upgrade_level,
                                    !.efficiency = mineStore'[i].efficiency,
                                    !.capacity = mineStore'[i].capacity]]
                /\ UNCHANGED <<globalProduction, mineCount, playerMines>>
      ]_vars

\* C18 witness: of two mines of different metals, one harvested earlier, the
\* other one has just been upgraded
C18_Witness ==
    /\ result = Ret("upgrade_mine", "Ok", 0)
    /\ \E i \in DOMAIN mineStore, j \in DOMAIN mineStore :
          /\ mineStore[i].metal_type # mineStore[j].metal_type
          /\ mineStore[i].current_production > 0
          /\ mineStore[i].upgrade_level = 1
          /\ mineStore[j].upgrade_level = 2

-----------------------------------------------------------------------------
(* Claims about who may invoke the PlayerContract *)

\* C19: what register_player, update_experience, add_active_mine and
\* update_total_mined return and store does not depend on the caller: the
\* step the invocation signed by one address takes is the step the same
\* invocation signed by any other address takes.
C19_CallerIndependent ==
    [][\A c1 \in Addresses, c2 \in Addresses, p \in Addresses :
          (c1 = invoker' /\ c2 # c1) =>
              /\ result'.op = "register_player" =>
                    \A u \in Usernames :
                        register_player(c1, p, u) => register_player(c2, p, u)
              /\ result'.op = "update_experience" =>
                    \A e \in ExpGains :
                        update_experience(c1, p, e) => update_experience(c2, p, e)
              /\ result'.op = "add_active_mine" =>
                    \A i \in ActiveIds :
                        add_active_mine(c1, p, i) => add_active_mine(c2, p, i)
              /\ result'.op = "update_total_mined" =>
                    \A a \in Amounts :
                        update_total_mined(c1, p, a) => update_total_mined(c2, p, a)
      ]_vars

\* C19 witness: an address that is not registered itself has registered
\* another address, and has then changed that player's total_mined
C19_Witness ==
    /\ result = Ret("update_total_mined", "Ok", 0)
    /\ \E c \in Addresses, p \in Addresses :
          /\ c # p
          /\ invoker = c
          /\ DOMAIN playerStore = {p}
          /\ calls = 2
          /\ BigGreater(playerStore[p].total_mined, U64(0))

-----------------------------------------------------------------------------
(* Claims about invocations that overlap *)

\* C20: as long as no invocation began while another one was in flight,
\* no update is lost: once every invocation has returned, the ids
\* create_mine returned are all different, there is a stored Mine for each,
\* MineCount is their number, and every global counter is the sum of the
\* amounts of the receipts of its metal.  (When invocations overlap, an
\* update can be lost: see the witness.)
C20_SerialNoLostUpdate ==
    (~overlapped /\ \A t \in Threads : ~InFlight(t)) =>
        /\ \A j \in 1..Len(issued), k \in 1..Len(issued) :
              j # k => issued[j] # issued[k]
        /\ DOMAIN mineStore = ListedIds(issued)
        /\ Cardinality(DOMAIN mineStore) = Len(issued)
        /\ mineCount = Len(issued)
        /\ \A m \in MetalType : get_global_production(m) = harvested[m]

\* C20 witness: invocations overlapped; two create_mine calls returned the
\* same id and left one Mine and MineCount = 1, and the receipts of a metal
\* add up to more than its global counter
C20_Witness ==
    /\ overlapped
    /\ \A t \in Threads : ~InFlight(t)
    /\ Len(issued) = 2
    /\ issued[1] = issued[2]
    /\ Cardinality(DOMAIN mineStore) = 1
    /\ mineCount = 1
    /\ \E m \in MetalType :
          /\ get_global_production(m) > 0
          /\ get_global_production(m) < harvested[m]

=============================================================================
